---- MODULE Spec2Model ----
(***************************************************************************)
(* Podcast generation pipeline of NeuroDoc.                                *)
(*                                                                         *)
(*   PodcastService (src/src/services/podcastService.ts)                   *)
(*     waitForRateLimit, retryWithBackoff, extractSkeletonAndSummaries,    *)
(*     generateConversationTurn, generatePodcast,                          *)
(*     generatePodcastProgressive, generatePodcastWithAudio                *)
(*   AudioService (src/unnamed/part_005)                                   *)
(*     generateTurnAudio, generatePodcastAudio, combineAudioSegments       *)
(*                                                                         *)
(* Text is modelled by its word count (content.split(' ').length), the     *)
(* duration string `${m}:00` by its minute count m, an object URL by the   *)
(* number of the blob it names.  Time is in milliseconds.  The onProgress  *)
(* observers of the repository (src/unnamed/part_002:308-334, 388-398)     *)
(* only store what they receive, so an observer is a log that never        *)
(* throws.                                                                 *)
(***************************************************************************)
EXTENDS Integers, Sequences, FiniteSets, TLC

\* ---------------------------------------------------------------- constants
MAX_CONVERSATION_TURNS == 10
REQUEST_DELAY == 2000
MaxRetries == 3
BaseDelay == 1000
TurnDelay == 1000
SegmentDelay == 1000
LastTurnLiteral == 49
WordsPerMinute == 125

\* ------------------------------------------------------------------- bounds
StartTime == 10000
MaxWords == 130
MaxSegments == 3
MaxRequests == 2
Horizon == 4000

\* how long a capability call may take: shorter and longer than REQUEST_DELAY
OpDurations == {0, 3000}
WordCounts == {1, MaxWords}
Outcomes == {"ok", "throttle", "error"}

Undefined == -1

\* two generate calls on the one exported podcastService
Runs == {1, 2}
\* how far the clock moves between two events
TickStep == 1000

VARIABLES
    mode,            \* the entry point called: "progressive" (generatePodcastProgressive),
                     \* "plain" (generatePodcast) or "withAudio" (generatePodcastWithAudio)
    phase,           \* position of the running generate call
    i,               \* loop variable of the turn loop
    attempt,         \* loop variable of retryWithBackoff
    calls,           \* invocations of operation() by the current retryWithBackoff call
    retryEnd,        \* how the last finished retryWithBackoff call ended, and after how many invocations
    now,             \* Date.now()
    lastRequestTime, \* PodcastService.lastRequestTime
    prevInvoke,      \* start time of the capability invocation before the last one
    lastInvoke,      \* start time of the last capability invocation
    conversation,    \* the local array `conversation`
    snapshots,       \* the scripts passed to onProgress, in order
    finalScript,     \* the script returned
    failedTurn,      \* k when the k-th call of generateConversationTurn failed, else 0
    durations,       \* how long a call of an external service may take in this run
    respWords,       \* word count of the response the capability gives to each role in this run
    arrays,          \* the conversation arrays allocated so far; arrays[1] is the local `conversation`
    scripts,         \* the PodcastScript objects built for onProgress; `conversation` is an index in arrays
    snapRefs,        \* the objects passed to onProgress, in order (indices in scripts)
    retryLog,        \* the attempts of the current retryWithBackoff call so far: outcome and backoff wait
    runs,            \* the generation runs sharing the service: position, timer, requests left, last invocation
    twin,            \* a generatePodcast call given the same capability outcomes, when run beside
    stats,           \* retryWithBackoff calls and operation() invocations made by the run so far, when counted
    ownLast          \* start time of the last invocation made through each model, 0 once REQUEST_DELAY or more ago

\* the heap of the text run
heapVars == <<arrays, scripts, snapRefs>>

\* the text run without the clock
textRest == <<mode, phase, i, attempt, calls, retryEnd, lastRequestTime,
              prevInvoke, lastInvoke, conversation, snapshots, finalScript, failedTurn,
              respWords, durations, runs, heapVars, retryLog, twin, stats, ownLast>>

textVars == <<textRest, now>>

VARIABLES
    audioPhase,      \* position of the running generatePodcastAudio call
    hostApiKey,      \* AudioService.hostApiKey is non-empty
    expertApiKey,    \* AudioService.expertApiKey is non-empty
    turns,           \* the argument `conversation` of generatePodcastAudio
    si,              \* loop variable i of the segment loop
    segs,            \* the AudioSegment objects, by position in audioSegments
    objs,            \* the PodcastAudio objects created so far
    audioState,      \* the object the local `audioState` refers to (index in objs)
    emitted,         \* the objects passed to onProgress, in order (indices in objs)
    seen,            \* what each emitted object looked like when it was passed
    resolved,        \* the object generatePodcastAudio resolved with (index in objs), else 0
    synthLog         \* the generateTurnAudio calls made, in order: segment position and outcome

VARIABLES
    bufferChoices,   \* the AudioBuffers decodeAudioData may give for a segment's blob in this run
    decoded,         \* the AudioBuffer each segment's blob was decoded to by combineAudioSegments
    track,           \* what the URL combineAudioSegments resolved with names
    combineError,    \* the message of the Error combineAudioSegments threw
    requestStart,    \* when the last generateTurnAudio call was made
    attemptEnd       \* when the last generateTurnAudio call settled

combineVars == <<decoded, track, combineError>>

audioVars == <<audioPhase, hostApiKey, expertApiKey, turns, si, segs, objs,
               audioState, emitted, seen, resolved, synthLog, bufferChoices, combineVars,
               requestStart, attemptEnd>>

VARIABLE
    forwarded        \* the scripts generatePodcastWithAudio passed to its own onProgress, in order

vars == <<textVars, audioVars, forwarded>>

\* ------------------------------------------------------------ pure functions

\* Math.ceil(a / b) for a >= 0, b > 0
Ceil(a, b) == (a + b - 1) \div b

RECURSIVE TotalWords(_)
\* conversation.reduce((acc, turn) => acc + turn.content.split(' ').length, 0)
TotalWords(conv) ==
    IF conv = <<>> THEN 0 ELSE conv[1].words + TotalWords(Tail(conv))

\* Math.ceil(totalWords / 125)
DurationMinutes(conv) == Ceil(TotalWords(conv), WordsPerMinute)

\* mutation: the parity test of the role is inverted
CurrentRole_Inverted(k) == IF k % 2 = 0 THEN "host" ELSE "expert"

\* i % 2 === 0 ? 'expert' : 'host'
CurrentRole(k) == IF k % 2 = 0 THEN "expert" ELSE "host"

\* mutation: the introduction is counted as a completed turn
ProgressPercent_CountsIntro(k) == ((k + 2) * 100) \div MAX_CONVERSATION_TURNS

\* mutation: progress is computed from i instead of i + 1
ProgressPercent_FromIndex(k) == (k * 100) \div MAX_CONVERSATION_TURNS

\* ((i + 1) / MAX_CONVERSATION_TURNS) * 100
ProgressPercent(k) == ((k + 1) * 100) \div MAX_CONVERSATION_TURNS

\* isGenerating: i < 49
StillGenerating(k) == k < LastTurnLiteral

\* mutation: the rate limiter waits half the remaining time
WaitTime_Half(n, last) ==
    IF n - last < REQUEST_DELAY THEN (REQUEST_DELAY - (n - last)) \div 2 ELSE 0

\* waitForRateLimit: the time at which it returns when entered at time n
WaitTime(n, last) ==
    IF n - last < REQUEST_DELAY THEN REQUEST_DELAY - (n - last) ELSE 0

RateLimitRelease(n, last) == n + WaitTime(n, last)

\* the models invoked: structureModel (line 110), this.hostModel, this.expertModel
Callers == {"structure", "host", "expert"}

\* the model the request of the current phase goes to: structureModel (137),
\* this.hostModel for the introduction (282, 382), else the model of the
\* turn's role (183)
RequestCaller ==
    IF phase = "structure" THEN "structure"
    ELSE IF phase = "intro" THEN "host"
    ELSE CurrentRole(i)

\* mutation: the delay does not grow
BackoffDelay_Constant(att) == BaseDelay

\* baseDelay * Math.pow(2, attempt)
BackoffDelay(att) == BaseDelay * (2 ^ att)

\* mutation: a throttled operation is attempted a fourth time
AttemptVerdict_FourAttempts(outcome, att) ==
    IF outcome = "ok" THEN "ok"
    ELSE IF outcome = "throttle" /\ att < MaxRetries THEN "retry"
    ELSE "throw"

\* mutation: every failure is retried, throttling or not
ShouldRetry_AnyFailure(outcome, att) == att < MaxRetries - 1

\* mutation: the last retry is not made
ShouldRetry_OneLess(outcome, att) == outcome = "throttle" /\ att < MaxRetries - 2

\* isRateLimit && attempt < maxRetries - 1
ShouldRetry(outcome, att) == outcome = "throttle" /\ att < MaxRetries - 1

\* (attempt falls out of `for (...; attempt < maxRetries; ...)` => 'Max retries exceeded')
AttemptVerdict(outcome, att) ==
    IF outcome = "ok" THEN "ok"
    ELSE IF ShouldRetry(outcome, att)
         THEN (IF att + 1 < MaxRetries THEN "retry" ELSE "throw")
         ELSE "throw"

\* const podcastScript = { duration: "0:00", conversation: [...conversation],
\*                         isGenerating: true, totalTurns: 10, progress: 0 }
PodcastScript(conv) ==
    [conversation |-> conv, duration |-> 0, isGenerating |-> TRUE,
     totalTurns |-> MAX_CONVERSATION_TURNS, progress |-> 0]

\* { ...podcastScript, conversation, duration, progress, isGenerating: i < 49 }
UpdatedScript(base, conv, k) ==
    [base EXCEPT !.conversation = conv, !.duration = DurationMinutes(conv),
                 !.progress = ProgressPercent(k), !.isGenerating = StillGenerating(k)]

\* { ...podcastScript, conversation, isGenerating: false, progress: 100 }
ErrorScript(base, conv) ==
    [base EXCEPT !.conversation = conv, !.isGenerating = FALSE, !.progress = 100]

\* mutation: the final script does not clear isGenerating
FinalScript_StillGenerating(base, conv) ==
    [base EXCEPT !.conversation = conv, !.duration = DurationMinutes(conv),
                 !.progress = 100]

\* { ...podcastScript, conversation, duration, isGenerating: false, progress: 100 }
FinalScript(base, conv) ==
    [base EXCEPT !.conversation = conv, !.duration = DurationMinutes(conv),
                 !.isGenerating = FALSE, !.progress = 100]

\* the script generatePodcast returns: no totalTurns, no progress
PlainScript(conv) ==
    [conversation |-> conv, duration |-> DurationMinutes(conv), isGenerating |-> FALSE,
     totalTurns |-> Undefined, progress |-> Undefined]

NoScript ==
    [conversation |-> <<>>, duration |-> Undefined, isGenerating |-> FALSE,
     totalTurns |-> Undefined, progress |-> Undefined]

\* the run's calls are not counted
NoStats == [requests |-> Undefined, invocations |-> Undefined]

NoRetry == [request |-> "none", outcome |-> "none", calls |-> 0, log |-> <<>>]

\* mutation: the loop bound is off by one
TurnLoopContinues_OneMore(k) == k <= MAX_CONVERSATION_TURNS

\* for (let i = 0; i < MAX_CONVERSATION_TURNS; i++)
TurnLoopContinues(k) == k < MAX_CONVERSATION_TURNS

\* mutation: the turn loop has no try of its own
FailurePhase_NoTurnTry(ph) == "rejected"

\* where a throw of the request made in phase ph ends: the try of the turn
\* loop (lines 409-458) catches a throw of generateConversationTurn and the
\* run returns; any other throw reaches the outer catch (481-484), which rethrows
FailurePhase(ph) == IF ph = "turn" THEN "returned" ELSE "rejected"

\* const conversation: ConversationTurn[] = []: the first array allocated
ConversationRef == 1

\* mutation: the snapshot is given the conversation array itself
SpreadRef_Alias(arrs, ref) == ref

\* [...conversation]: the array the spread allocates
SpreadRef(arrs, ref) == Len(arrs) + 1

\* the script object whose fields are those of value and whose conversation is array ref
ScriptObject(value, ref) == [value EXCEPT !.conversation = ref]

\* no generatePodcast call runs beside
NoTwin == [phase |-> "none", i |-> 0, attempt |-> 0, conversation |-> <<>>, result |-> NoScript]

\* the capability call a generatePodcast call in state t awaits: the model,
\* the conversation passed as history and the attempt of retryWithBackoff
PlainCall(t) ==
    [caller |-> IF t.phase = "structure" THEN "structure"
                ELSE IF t.phase = "intro" THEN "host"
                ELSE CurrentRole(t.i),
     history |-> t.conversation,
     attempt |-> t.attempt]

\* mutation: a failed turn is skipped and the loop goes on
PlainStep_NoBreak(t, o) ==
    LET verdict == AttemptVerdict(o, t.attempt)
        role == CurrentRole(t.i)
        pushed == Append(t.conversation, [role |-> role, words |-> respWords[role]])
    IN
    IF t.phase \notin {"structure", "intro", "turn"} THEN t
    ELSE IF verdict = "retry" THEN [t EXCEPT !.attempt = @ + 1]
    ELSE IF verdict = "throw"
    THEN IF t.phase = "turn"
         THEN IF TurnLoopContinues(t.i + 1)
              THEN [t EXCEPT !.i = @ + 1, !.attempt = 0]
              ELSE [t EXCEPT !.phase = "returned", !.i = @ + 1, !.attempt = 0,
                             !.result = PlainScript(t.conversation)]
         ELSE [t EXCEPT !.phase = "rejected", !.attempt = 0]
    ELSE IF t.phase = "structure" THEN [t EXCEPT !.phase = "intro", !.attempt = 0]
    ELSE IF t.phase = "intro"
    THEN [t EXCEPT !.phase = "turn", !.i = 0, !.attempt = 0,
                   !.conversation = Append(@, [role |-> "host", words |-> respWords["host"]])]
    ELSE IF TurnLoopContinues(t.i + 1)
    THEN [t EXCEPT !.i = @ + 1, !.attempt = 0, !.conversation = pushed]
    ELSE [t EXCEPT !.phase = "returned", !.i = @ + 1, !.attempt = 0,
                   !.conversation = pushed, !.result = PlainScript(pushed)]

\* generatePodcast in state t once the awaited capability call has outcome o:
\* retryWithBackoff retries or settles; the structure and the introduction
\* are awaited outside the loop's try, so their failure rejects; a turn is
\* pushed and the loop goes on to i + 1, or its failure breaks the loop; the
\* script is built from the conversation once the loop is left
PlainStep(t, o) ==
    LET verdict == AttemptVerdict(o, t.attempt)
        role == CurrentRole(t.i)
        pushed == Append(t.conversation, [role |-> role, words |-> respWords[role]])
    IN
    IF t.phase \notin {"structure", "intro", "turn"} THEN t
    ELSE IF verdict = "retry" THEN [t EXCEPT !.attempt = @ + 1]
    ELSE IF verdict = "throw"
    THEN IF t.phase = "turn"
         THEN [t EXCEPT !.phase = "returned", !.attempt = 0,
                        !.result = PlainScript(t.conversation)]
         ELSE [t EXCEPT !.phase = "rejected", !.attempt = 0]
    ELSE IF t.phase = "structure" THEN [t EXCEPT !.phase = "intro", !.attempt = 0]
    ELSE IF t.phase = "intro"
    THEN [t EXCEPT !.phase = "turn", !.i = 0, !.attempt = 0,
                   !.conversation = Append(@, [role |-> "host", words |-> respWords["host"]])]
    ELSE IF TurnLoopContinues(t.i + 1)
    THEN [t EXCEPT !.i = @ + 1, !.attempt = 0, !.conversation = pushed]
    ELSE [t EXCEPT !.phase = "returned", !.i = @ + 1, !.attempt = 0,
                   !.conversation = pushed, !.result = PlainScript(pushed)]

\* what an observer reads through script object ob when the arrays are arrs
ReadScript(ob, arrs) == [ob EXCEPT !.conversation = arrs[@]]

\* the script returned once the turn loop is left
Returned(conv) ==
    IF mode = "plain" THEN PlainScript(conv)
    ELSE FinalScript(PodcastScript(SubSeq(conv, 1, 1)), conv)

\* { ...scriptProgress, progress: (scriptProgress.progress || 0) * 0.5 }, the
\* progress as the fraction <<numerator, denominator>>
AdjustedProgress(scriptProgress) == [scriptProgress EXCEPT !.progress = <<@, 2>>]

\* mutation: the audio phase starts again from 0
TotalProgress_NoOffset(progress) == <<progress[1], 2 * progress[2]>>

\* 50 + (audioProgress.progress * 0.5), of and as a fraction
TotalProgress(progress) == <<100 * progress[2] + progress[1], 2 * progress[2]>>

\* { ...textScript, audioState: audioProgress, isGeneratingAudio: audioProgress.isGenerating,
\*   audioProgress: audioProgress.progress, progress: totalProgress }
\* where audioProgress is object ref, read as view
UpdatedScriptWithAudio(textScript, ref, view) ==
    [conversation |-> textScript.conversation, duration |-> textScript.duration,
     isGenerating |-> textScript.isGenerating, totalTurns |-> textScript.totalTurns,
     audioState |-> ref, isGeneratingAudio |-> view.isGenerating,
     audioProgress |-> view.progress, progress |-> TotalProgress(view.progress)]

\* { ...textScript, audioState, isGeneratingAudio: false, audioProgress: 100, progress: 100 }
FinalScriptWithAudio(textScript, ref) ==
    [conversation |-> textScript.conversation, duration |-> textScript.duration,
     isGenerating |-> textScript.isGenerating, totalTurns |-> textScript.totalTurns,
     audioState |-> ref, isGeneratingAudio |-> FALSE,
     audioProgress |-> 100, progress |-> 100]

\* ------------------------------------------------------- AudioService data
NoUrl == 0
NoError == ""

Roles == {"host", "expert"}

\* why generateTurnAudio can fail once the request is sent: !response.ok with
\* status 429, 401, 400 or another status, or fetch / blob() rejecting
SynthFailures == {"429", "401", "400", "status", "network"}

\* the message of the Error generateTurnAudio throws
ErrorMessage(kind) ==
    CASE kind = "nokey"  -> "ElevenLabs API key not configured"
      [] kind = "429"    -> "Rate limit exceeded"
      [] kind = "401"    -> "Invalid API key"
      [] kind = "400"    -> "Invalid request"
      [] kind = "status" -> "Failed to generate audio"
      [] OTHER           -> "network error"

\* role === 'host' ? this.hostApiKey : this.expertApiKey, and `if (!apiKey)`
ApiKeyConfigured(role) == IF role = "host" THEN hostApiKey ELSE expertApiKey

\* a transcript as the generators produce it: the introduction, then the turns
Transcript(n) ==
    [k \in 1..n |-> [role |-> IF k = 1 THEN "host" ELSE CurrentRole(k - 2), words |-> 1]]

\* conversation.map((turn, index) => ({ id, role, text, isGenerating: false }))
NewSegments(conv) ==
    [k \in 1..Len(conv) |->
        [role |-> conv[k].role, isGenerating |-> FALSE, audioUrl |-> NoUrl, error |-> NoError]]

\* [...audioSegments]: a new array of the same segment objects
SegmentRefs(sg) == [k \in 1..Len(sg) |-> k]

\* (completedSegments / totalSegments) * 100, as the fraction <<numerator, denominator>>
SegmentProgress(completed, total) == <<completed * 100, total>>

\* what an observer reads through object ob when the segments are sg
View(ob, sg) == [ob EXCEPT !.segments = [k \in DOMAIN ob.segments |-> sg[ob.segments[k]]]]

RECURSIVE WithAudio(_, _)
\* segments.filter(s => s.audioBlob): positions of the segments that have audio, from k on
WithAudio(sg, k) ==
    IF k > Len(sg) THEN <<>>
    ELSE IF sg[k].audioUrl # NoUrl THEN <<k>> \o WithAudio(sg, k + 1)
    ELSE WithAudio(sg, k + 1)

\* An AudioBuffer is the sequence of its channels, a channel the sequence
\* of its samples; a sample is a Float32 counted in halves (2 is 1.0, 3 is 1.5)
SampleUnit == 2

\* decoded speech: mono and stereo, one and two samples long, in and out of [-1, 1]
DecodedBuffers ==
    { <<<<2>>>>, <<<<-1, 3>>>>, <<<<0>>, <<1>>>>, <<<<1, 0>>, <<-2, -3>>>> }

\* buffer.length
BufferLength(buffer) == Len(buffer[1])

RECURSIVE TotalLength(_)
\* audioBuffers.reduce((sum, buffer) => sum + buffer.length, 0)
TotalLength(buffers) ==
    IF buffers = <<>> THEN 0 ELSE BufferLength(Head(buffers)) + TotalLength(Tail(buffers))

\* a channel of audioContext.createBuffer(numberOfChannels, n, sampleRate)
Silence(n) == [k \in 1..n |-> 0]

\* target.set(data, offset) of a Float32Array
SetAt(target, data, offset) ==
    [k \in 1..Len(target) |->
        IF k > offset /\ k <= offset + Len(data) THEN data[k - offset] ELSE target[k]]

\* mutation: the offset is not advanced
NextOffset_Stuck(offset, buffer) == offset

\* offset += buffer.length
NextOffset(offset, buffer) == offset + BufferLength(buffer)

RECURSIVE CopyBuffers(_, _, _, _)
\* lines 294-301: copy the buffers from the k-th on into combined, the next at offset
CopyBuffers(buffers, k, offset, combined) ==
    IF k > Len(buffers) THEN combined
    ELSE CopyBuffers(buffers, k + 1, NextOffset(offset, buffers[k]),
                     [c \in 1..Len(combined) |-> SetAt(combined[c], buffers[k][c], offset)])

\* buffer.getChannelData(channel) for channel < audioBuffers[0].numberOfChannels
\* throws an IndexSizeError on a buffer with fewer channels
ChannelsSuffice(buffers) == \A k \in 1..Len(buffers) : Len(buffers[k]) >= Len(buffers[1])

\* lines 285-301: the combined buffer, which startRendering() plays unchanged
CombinedBuffer(buffers) ==
    CopyBuffers(buffers, 1, 0, [c \in 1..Len(buffers[1]) |-> Silence(TotalLength(buffers))])

\* Math.max(-1, Math.min(1, sample)), then sample < 0 ? sample * 0x8000 : sample * 0x7FFF
\* written by setInt16, which drops the fraction
ToPcm16(sample) ==
    LET clamped == IF sample < -SampleUnit THEN -SampleUnit
                   ELSE IF sample > SampleUnit THEN SampleUnit ELSE sample
    IN IF clamped < 0 THEN -((-clamped * 32768) \div SampleUnit)
       ELSE (clamped * 32767) \div SampleUnit

\* audioBufferToWav: the 16-bit samples, interleaved by channel
AudioBufferToWav(buffer) ==
    LET numberOfChannels == Len(buffer) IN
    [numberOfChannels |-> numberOfChannels,
     data |-> [k \in 1..(BufferLength(buffer) * numberOfChannels) |->
                  ToPcm16(buffer[((k - 1) % numberOfChannels) + 1][((k - 1) \div numberOfChannels) + 1])]]

NoTrack == [numberOfChannels |-> 0, data |-> <<>>]

\* mutation: a single segment is decoded and re-encoded like several
CombineAudioSegments_AlwaysEncodes(sg, decodeOk, blobs) ==
    LET audioSegments == WithAudio(sg, 1)
        audioBuffers == [j \in 1..Len(audioSegments) |-> blobs[audioSegments[j]]]
    IN
    IF Len(audioSegments) = 0
    THEN [url |-> NoUrl, track |-> NoTrack, error |-> "No audio segments to combine"]
    ELSE IF ~decodeOk
    THEN [url |-> NoUrl, track |-> NoTrack, error |-> "Unable to decode audio data"]
    ELSE IF ~ChannelsSuffice(audioBuffers)
    THEN [url |-> NoUrl, track |-> NoTrack, error |-> "IndexSizeError"]
    ELSE [url |-> Len(sg) + 1, track |-> AudioBufferToWav(CombinedBuffer(audioBuffers)),
          error |-> NoError]

\* combineAudioSegments when the blob of segment k decodes to blobs[k] (if
\* decodeAudioData does not reject): the URL it resolves with and what that URL
\* names, or the message of the Error it throws
CombineAudioSegments(sg, decodeOk, blobs) ==
    LET audioSegments == WithAudio(sg, 1)
        audioBuffers == [j \in 1..Len(audioSegments) |-> blobs[audioSegments[j]]]
    IN
    IF Len(audioSegments) = 0
    THEN [url |-> NoUrl, track |-> NoTrack, error |-> "No audio segments to combine"]
    ELSE IF Len(audioSegments) = 1
    THEN [url |-> sg[audioSegments[1]].audioUrl, track |-> [segment |-> audioSegments[1]],
          error |-> NoError]
    ELSE IF ~decodeOk
    THEN [url |-> NoUrl, track |-> NoTrack, error |-> "Unable to decode audio data"]
    ELSE IF ~ChannelsSuffice(audioBuffers)
    THEN [url |-> NoUrl, track |-> NoTrack, error |-> "IndexSizeError"]
    ELSE [url |-> Len(sg) + 1, track |-> AudioBufferToWav(CombinedBuffer(audioBuffers)),
          error |-> NoError]

\* ------------------------------------------------------------------- Init
TextInit ==
    /\ mode \in {"progressive", "plain"}
    /\ phase = "structure"
    /\ i = 0
    /\ attempt = 0
    /\ calls = 0
    /\ retryEnd = NoRetry
    /\ now = StartTime
    /\ lastRequestTime \in {0, StartTime - BaseDelay}
    /\ prevInvoke = Undefined
    /\ lastInvoke = Undefined
    /\ conversation = <<>>
    /\ snapshots = <<>>
    /\ finalScript = NoScript
    /\ failedTurn = 0
    /\ respWords \in [Roles -> WordCounts]
    /\ durations = OpDurations
    /\ arrays = <<<<>>>>
    /\ scripts = <<>>
    /\ snapRefs = <<>>
    /\ retryLog = <<>>
    /\ twin = NoTwin
    /\ stats = NoStats
    /\ ownLast = [c \in Callers |-> IF c = "host" THEN lastRequestTime ELSE 0]

\* no generatePodcastAudio call is running
AudioIdle ==
    /\ audioPhase = "idle"
    /\ hostApiKey = TRUE
    /\ expertApiKey = TRUE
    /\ turns = <<>>
    /\ si = 0
    /\ segs = <<>>
    /\ objs = <<>>
    /\ audioState = 0
    /\ emitted = <<>>
    /\ seen = <<>>
    /\ resolved = 0
    /\ synthLog = <<>>
    /\ bufferChoices = {<<<<2>>>>}
    /\ decoded = <<>>
    /\ track = NoTrack
    /\ combineError = NoError
    /\ requestStart = Undefined
    /\ attemptEnd = Undefined

\* no generate call is running
TextIdle ==
    /\ mode = "progressive"
    /\ phase = "idle"
    /\ i = 0
    /\ attempt = 0
    /\ calls = 0
    /\ retryEnd = NoRetry
    /\ now = StartTime
    /\ lastRequestTime = 0
    /\ prevInvoke = Undefined
    /\ lastInvoke = Undefined
    /\ conversation = <<>>
    /\ snapshots = <<>>
    /\ finalScript = NoScript
    /\ failedTurn = 0
    /\ respWords = [r \in Roles |-> 1]
    /\ durations = OpDurations
    /\ arrays = <<<<>>>>
    /\ scripts = <<>>
    /\ snapRefs = <<>>
    /\ retryLog = <<>>
    /\ twin = NoTwin
    /\ stats = NoStats
    /\ ownLast = [c \in Callers |-> 0]

\* generatePodcastAudio is called with a transcript of 1..MaxSegments turns
AudioInit ==
    /\ audioPhase = "start"
    /\ hostApiKey \in BOOLEAN
    /\ expertApiKey \in BOOLEAN
    /\ turns \in {Transcript(n) : n \in 1..MaxSegments}
    /\ si = 0
    /\ segs = <<>>
    /\ objs = <<>>
    /\ audioState = 0
    /\ emitted = <<>>
    /\ seen = <<>>
    /\ resolved = 0
    /\ synthLog = <<>>
    /\ bufferChoices = DecodedBuffers
    /\ decoded = <<>>
    /\ track = NoTrack
    /\ combineError = NoError
    /\ requestStart = Undefined
    /\ attemptEnd = Undefined

\* generatePodcastWithAudio is called on a service whose calls return at once
TextWithAudioInit ==
    /\ mode = "withAudio"
    /\ phase = "structure"
    /\ i = 0
    /\ attempt = 0
    /\ calls = 0
    /\ retryEnd = NoRetry
    /\ now = StartTime
    /\ lastRequestTime = 0
    /\ prevInvoke = Undefined
    /\ lastInvoke = Undefined
    /\ conversation = <<>>
    /\ snapshots = <<>>
    /\ finalScript = NoScript
    /\ failedTurn = 0
    /\ respWords = [r \in Roles |-> MaxWords]
    /\ durations = {0}
    /\ arrays = <<<<>>>>
    /\ scripts = <<>>
    /\ snapRefs = <<>>
    /\ retryLog = <<>>
    /\ twin = NoTwin
    /\ stats = NoStats
    /\ ownLast = [c \in Callers |-> 0]

\* one call at a time: no concurrent run
NoRuns == [p \in Runs |-> [pc |-> "idle", wake |-> 0, left |-> 0, invoked |-> Undefined]]

\* generatePodcastProgressive is called on a service whose calls return at
\* once; the run's requests and invocations are counted, and a
\* generatePodcast call is given the same capability outcomes beside it
TextCountedInit ==
    /\ mode = "progressive"
    /\ phase = "structure"
    /\ i = 0
    /\ attempt = 0
    /\ calls = 0
    /\ retryEnd = NoRetry
    /\ now = StartTime
    /\ lastRequestTime \in {0, StartTime - BaseDelay}
    /\ prevInvoke = Undefined
    /\ lastInvoke = Undefined
    /\ conversation = <<>>
    /\ snapshots = <<>>
    /\ finalScript = NoScript
    /\ failedTurn = 0
    /\ respWords \in [Roles -> WordCounts]
    /\ durations = {0}
    /\ arrays = <<<<>>>>
    /\ scripts = <<>>
    /\ snapRefs = <<>>
    /\ retryLog = <<>>
    /\ twin = [NoTwin EXCEPT !.phase = "structure"]
    /\ stats = [requests |-> 0, invocations |-> 0]
    /\ ownLast = [c \in Callers |-> IF c = "host" THEN lastRequestTime ELSE 0]

Init == TextInit /\ AudioIdle /\ forwarded = <<>> /\ runs = NoRuns

InitCounted == TextCountedInit /\ AudioIdle /\ forwarded = <<>> /\ runs = NoRuns

InitAudio == TextIdle /\ AudioInit /\ forwarded = <<>> /\ runs = NoRuns

InitWithAudio == TextWithAudioInit /\ AudioIdle /\ forwarded = <<>> /\ runs = NoRuns

\* two runs are started on a fresh service, each about to make MaxRequests requests
InitConcurrent ==
    /\ TextIdle
    /\ AudioIdle
    /\ forwarded = <<>>
    /\ runs = [p \in Runs |-> [pc |-> "ready", wake |-> 0, left |-> MaxRequests, invoked |-> Undefined]]

\* ---------------------------------------------------------------- actions

\* one pass of the body of retryWithBackoff's loop: waitForRateLimit, then
\* operation(), which takes d ms
Invoke(d, after) ==
    LET start == RateLimitRelease(now, lastRequestTime) IN
    /\ lastRequestTime' = start
    /\ prevInvoke' = lastInvoke
    /\ lastInvoke' = start
    /\ stats' = IF stats = NoStats THEN stats
                ELSE [requests |-> stats.requests + (IF attempt = 0 THEN 1 ELSE 0),
                      invocations |-> stats.invocations + 1]
    /\ ownLast' = [c \in Callers |->
                      LET t == IF c = RequestCaller THEN start ELSE ownLast[c] IN
                      IF (start + d + after) - t >= REQUEST_DELAY THEN 0 ELSE t]
    /\ now' = start + d + after

\* mutation: the observer is called before the new turn is pushed
PushAndNotify_BeforePush(conv, value) ==
    LET pushed == [arrays EXCEPT ![ConversationRef] = conv]
        ref == SpreadRef(arrays, ConversationRef)
        heap == Append(pushed, arrays[ConversationRef])
        ob == ScriptObject(value, ref)
    IN
    /\ conversation' = conv
    /\ IF mode # "plain"
       THEN /\ arrays' = heap
            /\ scripts' = Append(scripts, ob)
            /\ snapRefs' = Append(snapRefs, Len(scripts) + 1)
            /\ snapshots' = Append(snapshots, ReadScript(ob, heap))
            /\ forwarded' = IF mode = "withAudio"
                            THEN Append(forwarded, AdjustedProgress(ReadScript(ob, heap)))
                            ELSE forwarded
       ELSE /\ arrays' = pushed
            /\ UNCHANGED <<scripts, snapRefs, snapshots, forwarded>>

\* conversation.push(...) has made the local array conv; in a progressive
\* run a script with the fields of value and conversation: [...conversation]
\* is then built and passed to onProgress, which under generatePodcastWithAudio
\* is the closure of lines 504-510
PushAndNotify(conv, value) ==
    LET pushed == [arrays EXCEPT ![ConversationRef] = conv]
        ref == SpreadRef(pushed, ConversationRef)
        heap == Append(pushed, pushed[ConversationRef])
        ob == ScriptObject(value, ref)
    IN
    /\ conversation' = conv
    /\ IF mode # "plain"
       THEN /\ arrays' = heap
            /\ scripts' = Append(scripts, ob)
            /\ snapRefs' = Append(snapRefs, Len(scripts) + 1)
            /\ snapshots' = Append(snapshots, ReadScript(ob, heap))
            /\ forwarded' = IF mode = "withAudio"
                            THEN Append(forwarded, AdjustedProgress(ReadScript(ob, heap)))
                            ELSE forwarded
       ELSE /\ arrays' = pushed
            /\ UNCHANGED <<scripts, snapRefs, snapshots, forwarded>>

EndRetry(o) ==
    /\ twin' = PlainStep(twin, o)
    /\ retryEnd' = [request |-> phase, outcome |-> o, calls |-> calls + 1,
                    log |-> Append(retryLog, [outcome |-> o, backoff |-> 0])]
    /\ attempt' = 0
    /\ calls' = 0
    /\ retryLog' = <<>>

\* the attempt is throttled and retried after the backoff delay
Retry ==
    /\ phase \in {"structure", "intro", "turn"}
    /\ \E o \in Outcomes, d \in durations :
        /\ AttemptVerdict(o, attempt) = "retry"
        /\ Invoke(d, BackoffDelay(attempt))
        /\ retryLog' = Append(retryLog, [outcome |-> o, backoff |-> BackoffDelay(attempt)])
        /\ twin' = PlainStep(twin, o)
    /\ attempt' = attempt + 1
    /\ calls' = calls + 1
    /\ UNCHANGED <<mode, phase, i, retryEnd, conversation, snapshots, finalScript, failedTurn, respWords, durations, runs, heapVars, forwarded, audioVars>>

\* extractSkeletonAndSummaries returns
ExtractOk ==
    /\ phase = "structure"
    /\ \E o \in Outcomes, d \in durations :
        /\ AttemptVerdict(o, attempt) = "ok"
        /\ Invoke(d, 0)
        /\ EndRetry(o)
    /\ phase' = "intro"
    /\ UNCHANGED <<mode, i, conversation, snapshots, finalScript, failedTurn, respWords, durations, runs, heapVars, forwarded, audioVars>>

\* extractSkeletonAndSummaries throws: the outer catch rethrows
ExtractFail ==
    /\ phase = "structure"
    /\ \E o \in Outcomes, d \in durations :
        /\ AttemptVerdict(o, attempt) = "throw"
        /\ Invoke(d, 0)
        /\ EndRetry(o)
    /\ phase' = FailurePhase(phase)
    /\ UNCHANGED <<mode, i, conversation, snapshots, finalScript, failedTurn, respWords, durations, runs, heapVars, forwarded, audioVars>>

\* the introduction is generated, pushed and (progressive) notified
IntroOk ==
    /\ phase = "intro"
    /\ \E o \in Outcomes, d \in durations :
        /\ AttemptVerdict(o, attempt) = "ok"
        /\ Invoke(d, 0)
        /\ EndRetry(o)
        /\ LET conv == Append(conversation, [role |-> "host", words |-> respWords["host"]]) IN
           PushAndNotify(conv, PodcastScript(conv))
    /\ phase' = "turn"
    /\ i' = 0
    /\ UNCHANGED <<mode, finalScript, failedTurn, respWords, durations, runs, audioVars>>

\* the introduction call throws outside the loop's try: the outer catch rethrows
IntroFail ==
    /\ phase = "intro"
    /\ \E o \in Outcomes, d \in durations :
        /\ AttemptVerdict(o, attempt) = "throw"
        /\ Invoke(d, 0)
        /\ EndRetry(o)
    /\ phase' = FailurePhase(phase)
    /\ UNCHANGED <<mode, i, conversation, snapshots, finalScript, failedTurn, respWords, durations, runs, heapVars, forwarded, audioVars>>

\* generateConversationTurn returns in iteration i: push, notify, pause, i++;
\* after the last iteration the final script is returned
TurnOk ==
    /\ phase = "turn"
    /\ TurnLoopContinues(i)
    /\ \E o \in Outcomes, d \in durations :
        /\ AttemptVerdict(o, attempt) = "ok"
        /\ Invoke(d, IF i < LastTurnLiteral THEN TurnDelay ELSE 0)
        /\ EndRetry(o)
        /\ LET conv == Append(conversation, [role |-> CurrentRole(i), words |-> respWords[CurrentRole(i)]])
               base == PodcastScript(SubSeq(conv, 1, 1))
           IN
           /\ PushAndNotify(conv, UpdatedScript(base, conv, i))
           /\ IF TurnLoopContinues(i + 1)
              THEN /\ phase' = "turn"
                   /\ finalScript' = finalScript
              ELSE /\ phase' = "returned"
                   /\ finalScript' = Returned(conv)
    /\ i' = i + 1
    /\ UNCHANGED <<mode, failedTurn, respWords, durations, runs, audioVars>>

\* generateConversationTurn throws in iteration i: notify the error script,
\* break, return the final script
TurnFail ==
    /\ phase = "turn"
    /\ TurnLoopContinues(i)
    /\ \E o \in Outcomes, d \in durations :
        /\ AttemptVerdict(o, attempt) = "throw"
        /\ Invoke(d, 0)
        /\ EndRetry(o)
    /\ PushAndNotify(conversation,
                     ErrorScript(PodcastScript(SubSeq(conversation, 1, 1)), conversation))
    /\ phase' = FailurePhase(phase)
    /\ finalScript' = Returned(conversation)
    /\ failedTurn' = i + 1
    /\ UNCHANGED <<mode, i, respWords, durations, runs, audioVars>>

Next ==
    \/ Retry
    \/ ExtractOk
    \/ ExtractFail
    \/ IntroOk
    \/ IntroFail
    \/ TurnOk
    \/ TurnFail

Spec == Init /\ [][Next]_vars

\* a counted run in which every capability call settles: an awaited call
\* that returns or fails lets the run take its next step
SpecCounted == InitCounted /\ [][Next]_vars /\ WF_vars(Next)

\* ------------------------------------------------- generatePodcastAudio

\* onProgress?.(audioState) once the heap is sg, ob and audioState is ref;
\* under generatePodcastWithAudio onProgress is the closure of lines 517-531
Emit(ref, ob, sg) ==
    /\ emitted' = Append(emitted, ref)
    /\ seen' = Append(seen, View(ob[ref], sg))
    /\ forwarded' = IF mode = "withAudio"
                    THEN Append(forwarded, UpdatedScriptWithAudio(finalScript, ref, View(ob[ref], sg)))
                    ELSE forwarded

\* mutation: the loop is left after the first segment
AfterSegment_FirstOnly == "combine"

\* where the loop goes after the iteration of segment si
AfterSegment == IF si + 1 < Len(turns) THEN "loop" ELSE "combine"

\* mutation: a failed segment ends the loop
AfterFailure_Break == "combine"

\* the catch of lines 195-207 has no break: "Continue with next segment even if one fails"
AfterFailure == AfterSegment

\* segment.audioUrl = audioUrl; segment.audioBlob = audioBlob; segment.isGenerating = false
StoreAudio(seg, url) == [seg EXCEPT !.audioUrl = url, !.isGenerating = FALSE]

\* mutation: a failed segment is left marked as generating
StoreError_StillGenerating(seg, msg) == [seg EXCEPT !.error = msg]

\* mutation: a failed segment is given a placeholder audio URL
StoreError_WithAudio(seg, msg) ==
    [seg EXCEPT !.error = msg, !.audioUrl = Len(turns) + 2, !.isGenerating = FALSE]

\* segment.error = error.message; segment.isGenerating = false
StoreError(seg, msg) == [seg EXCEPT !.error = msg, !.isGenerating = FALSE]

\* lines 129-148: build the segments and the first state, notify it
AudioStart ==
    /\ audioPhase = "start"
    /\ LET sg == NewSegments(turns)
           ob == <<[segments |-> SegmentRefs(sg), isGenerating |-> TRUE,
                    progress |-> <<0, 1>>, totalSegments |-> Len(turns),
                    completedSegments |-> 0, fullAudioUrl |-> NoUrl, error |-> NoError]>>
       IN
       /\ segs' = sg
       /\ objs' = ob
       /\ audioState' = 1
       /\ Emit(1, ob, sg)
    /\ si' = 0
    /\ audioPhase' = IF 0 < Len(turns) THEN "loop" ELSE "combine"
    /\ UNCHANGED <<hostApiKey, expertApiKey, turns, resolved, synthLog, bufferChoices, combineVars,
                   requestStart, attemptEnd, textVars>>

\* lines 152-169: mark the segment generating, notify a new state object,
\* call generateTurnAudio
SegmentBegin ==
    /\ audioPhase = "loop"
    /\ si < Len(turns)
    /\ LET sg == [segs EXCEPT ![si + 1].isGenerating = TRUE]
           ob == Append(objs, [objs[audioState] EXCEPT !.segments = SegmentRefs(sg)])
       IN
       /\ segs' = sg
       /\ objs' = ob
       /\ audioState' = Len(ob)
       /\ Emit(Len(ob), ob, sg)
    /\ audioPhase' = "synth"
    /\ requestStart' = now
    /\ UNCHANGED <<hostApiKey, expertApiKey, turns, si, resolved, synthLog, bufferChoices, combineVars,
                   attemptEnd, textVars>>

\* if (i < conversation.length - 1) await new Promise(resolve => setTimeout(resolve, 1000))
PauseAfterSuccess(k, n) == IF k < n - 1 THEN SegmentDelay ELSE 0

\* lines 171-193: generateTurnAudio resolved; store the audio, notify, pause
SegmentOk ==
    /\ audioPhase = "synth"
    /\ ApiKeyConfigured(segs[si + 1].role)
    /\ LET sg == [segs EXCEPT ![si + 1] = StoreAudio(@, si + 1)]
           ob == Append(objs, [objs[audioState] EXCEPT
                                  !.segments = SegmentRefs(sg),
                                  !.completedSegments = si + 1,
                                  !.progress = SegmentProgress(si + 1, Len(turns))])
       IN
       /\ segs' = sg
       /\ objs' = ob
       /\ audioState' = Len(ob)
       /\ Emit(Len(ob), ob, sg)
    /\ synthLog' = Append(synthLog, [segment |-> si + 1, outcome |-> "ok"])
    /\ si' = si + 1
    /\ audioPhase' = AfterSegment
    /\ \E d \in durations :
        /\ attemptEnd' = now + d
        /\ now' = now + d + PauseAfterSuccess(si, Len(turns))
    /\ UNCHANGED <<hostApiKey, expertApiKey, turns, resolved, bufferChoices, combineVars,
                   requestStart, textRest>>

\* lines 195-207: generateTurnAudio threw (at once when the key is missing);
\* store the error, notify, go on without a pause
SegmentFail ==
    /\ audioPhase = "synth"
    /\ \E kind \in IF ApiKeyConfigured(segs[si + 1].role) THEN SynthFailures ELSE {"nokey"} :
        LET sg == [segs EXCEPT ![si + 1] = StoreError(@, ErrorMessage(kind))]
            ob == Append(objs, [objs[audioState] EXCEPT !.segments = SegmentRefs(sg)])
        IN
        /\ segs' = sg
        /\ objs' = ob
        /\ audioState' = Len(ob)
        /\ Emit(Len(ob), ob, sg)
        /\ synthLog' = Append(synthLog, [segment |-> si + 1, outcome |-> kind])
        /\ \E d \in IF kind = "nokey" THEN {0} ELSE durations :
            /\ attemptEnd' = now + d
            /\ now' = now + d
    /\ si' = si + 1
    /\ audioPhase' = AfterFailure
    /\ UNCHANGED <<hostApiKey, expertApiKey, turns, resolved, bufferChoices, combineVars,
                   requestStart, textRest>>

\* mutation: the state resolved with still says it is generating
FinalState_StillGenerating(ob, url) ==
    [ob EXCEPT !.fullAudioUrl = IF url # NoUrl THEN url ELSE @]

\* lines 211-221: audioState.fullAudioUrl = fullAudioUrl unless the combination
\* threw (the catch only warns); audioState.isGenerating = false
FinalState(ob, url) ==
    [ob EXCEPT !.fullAudioUrl = IF url # NoUrl THEN url ELSE @, !.isGenerating = FALSE]

\* lines 210-225: combine, write the result into the current state object,
\* notify it and resolve with it
Combine ==
    /\ audioPhase = "combine"
    /\ \E decodeOk \in BOOLEAN,
          blobs \in [{k \in 1..Len(segs) : segs[k].audioUrl # NoUrl} -> bufferChoices] :
        LET combined == CombineAudioSegments(segs, decodeOk, blobs)
            ob == [objs EXCEPT ![audioState] = FinalState(@, combined.url)]
        IN
        /\ objs' = ob
        /\ Emit(audioState, ob, segs)
        /\ decoded' = IF decodeOk /\ Len(WithAudio(segs, 1)) > 1 THEN blobs ELSE <<>>
        /\ track' = combined.track
        /\ combineError' = combined.error
    /\ resolved' = audioState
    /\ audioPhase' = "resolved"
    /\ UNCHANGED <<hostApiKey, expertApiKey, turns, si, segs, audioState, synthLog,
                   bufferChoices, requestStart, attemptEnd, textVars>>

AudioNext ==
    \/ AudioStart
    \/ SegmentBegin
    \/ SegmentOk
    \/ SegmentFail
    \/ Combine

SpecAudio == InitAudio /\ [][AudioNext]_vars

\* ------------------------------------------ concurrent generation runs

\* what the steps of concurrent runs leave alone
besideRuns == <<mode, phase, i, attempt, calls, retryEnd, prevInvoke, lastInvoke,
                conversation, snapshots, finalScript, failedTurn, respWords, durations,
                heapVars, retryLog, twin, stats, ownLast, audioVars, forwarded>>

\* waitForRateLimit up to its await (lines 69-76) in run p: read the clock and
\* lastRequestTime; either set the timer, or (no wait) go on to line 78 and to
\* operation()
RunEnter(p) ==
    /\ runs[p].pc = "ready"
    /\ LET waitTime == WaitTime(now, lastRequestTime) IN
       IF waitTime > 0
       THEN /\ runs' = [runs EXCEPT ![p].pc = "waiting", ![p].wake = now + waitTime]
            /\ UNCHANGED lastRequestTime
       ELSE /\ runs' = [runs EXCEPT ![p].pc = "calling", ![p].invoked = now]
            /\ lastRequestTime' = now
    /\ UNCHANGED <<now, besideRuns>>

\* the timer of run p fires: this.lastRequestTime = Date.now() (line 78), then operation()
RunWake(p) ==
    /\ runs[p].pc = "waiting"
    /\ now >= runs[p].wake
    /\ runs' = [runs EXCEPT ![p].pc = "calling", ![p].invoked = now]
    /\ lastRequestTime' = now
    /\ UNCHANGED <<now, besideRuns>>

\* operation() of run p settles; the run goes on to its next request, if any
RunSettle(p) ==
    /\ runs[p].pc = "calling"
    /\ runs' = [runs EXCEPT ![p].left = @ - 1,
                            ![p].pc = IF runs[p].left > 1 THEN "ready" ELSE "done"]
    /\ UNCHANGED <<now, lastRequestTime, besideRuns>>

\* time passes, up to the next timer
Tick ==
    /\ \E p \in Runs : runs[p].pc # "done"
    /\ \A p \in Runs : runs[p].pc = "waiting" => runs[p].wake >= now + TickStep
    /\ now + TickStep <= StartTime + Horizon
    /\ now' = now + TickStep
    /\ UNCHANGED <<lastRequestTime, runs, besideRuns>>

NextConcurrent ==
    \/ \E p \in Runs : RunEnter(p)
    \/ \E p \in Runs : RunWake(p)
    \/ \E p \in Runs : RunSettle(p)
    \/ Tick

SpecConcurrent == InitConcurrent /\ [][NextConcurrent]_vars

\* ---------------------------------------------- generatePodcastWithAudio

\* lines 513-516: generatePodcastProgressive has returned textScript;
\* audioService.generatePodcastAudio(textScript.conversation, ...) is called
\* (followed here for transcripts of up to MaxSegments turns)
StartAudioGeneration ==
    /\ mode = "withAudio"
    /\ phase = "returned"
    /\ audioPhase = "idle"
    /\ Len(finalScript.conversation) <= MaxSegments
    /\ audioPhase' = "start"
    /\ turns' = finalScript.conversation
    /\ UNCHANGED <<textVars, hostApiKey, expertApiKey, si, segs, objs, audioState,
                   emitted, seen, resolved, synthLog, bufferChoices, combineVars,
                   requestStart, attemptEnd, forwarded>>

\* lines 535-545: generatePodcastAudio has resolved; the final script is returned
ReturnWithAudio ==
    /\ mode = "withAudio"
    /\ audioPhase = "resolved"
    /\ audioPhase' = "returned"
    /\ finalScript' = FinalScriptWithAudio(finalScript, resolved)
    /\ UNCHANGED <<mode, phase, i, attempt, calls, retryEnd, now, lastRequestTime,
                   prevInvoke, lastInvoke, conversation, snapshots, failedTurn,
                   respWords, durations, runs, heapVars, retryLog, twin, stats, ownLast,
                   hostApiKey, expertApiKey, turns, si, segs, objs, audioState,
                   emitted, seen, resolved, synthLog, bufferChoices, combineVars,
                   requestStart, attemptEnd, forwarded>>

NextWithAudio ==
    \/ Retry
    \/ ExtractOk
    \/ ExtractFail
    \/ IntroOk
    \/ IntroFail
    \/ TurnOk
    \/ TurnFail
    \/ StartAudioGeneration
    \/ AudioStart
    \/ SegmentBegin
    \/ SegmentOk
    \/ SegmentFail
    \/ Combine
    \/ ReturnWithAudio

SpecWithAudio == InitWithAudio /\ [][NextWithAudio]_vars

\* ------------------------------------------------------------- properties

\* every script handed out so far: the snapshots and, once returned, the final script
HandedOut ==
    {snapshots[j] : j \in 1..Len(snapshots)}
        \cup (IF phase = "returned" THEN {finalScript} ELSE {})

\* the run was cut short by a failing generateConversationTurn call
Truncated == failedTurn > 0

\* C1: when the k-th generateConversationTurn call of a progressive run fails
\* with a non-throttling error, the run returns (it does not reject) a script
\* of exactly k turns, the introduction and the k - 1 turns before the
\* failure, with isGenerating = false.
C1_GracefulTruncation ==
    (mode = "progressive" /\ retryEnd.request = "turn" /\ retryEnd.outcome = "error") =>
        /\ phase = "returned"
        /\ failedTurn \in 1..MAX_CONVERSATION_TURNS
        /\ Len(finalScript.conversation) = failedTurn
        /\ finalScript.conversation = conversation
        /\ finalScript.isGenerating = FALSE

C1_Witness ==
    /\ mode = "progressive"
    /\ phase = "returned"
    /\ retryEnd.request = "turn"
    /\ retryEnd.outcome = "error"
    /\ failedTurn = 3
    /\ Len(finalScript.conversation) = 3

\* turn 0 is the host's and the roles alternate after it
Alternates(conv) ==
    \A k \in 1..Len(conv) : conv[k].role = IF (k - 1) % 2 = 0 THEN "host" ELSE "expert"

\* C2: in every transcript a snapshot carries or a run (progressive or not)
\* returns, complete or truncated, the turn at index k is the host's when k is
\* even and the expert's when k is odd.
C2_Alternation ==
    /\ Alternates(conversation)
    /\ \A s \in HandedOut : Alternates(s.conversation)

C2_Witness ==
    /\ phase = "returned"
    /\ Truncated
    /\ Len(finalScript.conversation) = 4
    /\ finalScript.conversation[4].role = "expert"

\* C3: progress never decreases from one snapshot of a run to the next, and
\* when no turn failed the last snapshot of the finished run has progress 100.
C3_ProgressMonotone ==
    /\ \A j \in 1..(Len(snapshots) - 1) : snapshots[j].progress <= snapshots[j + 1].progress
    /\ (mode = "progressive" /\ phase = "returned" /\ ~Truncated) =>
           snapshots[Len(snapshots)].progress = 100

C3_Witness ==
    /\ mode = "progressive"
    /\ phase = "returned"
    /\ ~Truncated
    /\ Len(snapshots) = MAX_CONVERSATION_TURNS + 1
    /\ snapshots[1].progress = 0
    /\ snapshots[Len(snapshots)].progress = 100

\* C5: a retryWithBackoff call that ends with a throttling error (every
\* attempt was throttled) has invoked the operation exactly MaxRetries = 3
\* times, and no call invokes it more often.
C5_BackoffBounded ==
    /\ calls < MaxRetries
    /\ retryEnd.calls <= MaxRetries
    /\ retryEnd.outcome = "throttle" => retryEnd.calls = MaxRetries

C5_Witness ==
    /\ retryEnd.outcome = "throttle"
    /\ retryEnd.calls = 3
    /\ phase \in {"rejected", "returned"}

\* C6: two consecutive capability invocations of a run start at least
\* REQUEST_DELAY ms apart.
C6_Spacing ==
    prevInvoke # Undefined => lastInvoke - prevInvoke >= REQUEST_DELAY

C6_Witness ==
    /\ prevInvoke # Undefined
    /\ lastInvoke - prevInvoke = REQUEST_DELAY
    /\ attempt > 0

\* a request failed after its retries
RequestFailed(req) == retryEnd.request = req /\ retryEnd.outcome # "ok"

C8_IsGeneratingExact ==
    \A j \in 1..Len(snapshots) :
        snapshots[j].isGenerating = FALSE <=>
            \/ Len(snapshots[j].conversation) = MAX_CONVERSATION_TURNS + 1
            \/ (Truncated /\ j = Len(snapshots))

\* C9 as stated: the transcript of every snapshot and of the returned script,
\* the introduction counted, has at most totalTurns turns.
C9_AtMostTotalTurns ==
    mode = "progressive" =>
        \A s \in HandedOut : Len(s.conversation) <= s.totalTurns

\* C9 amended: the transcript of every snapshot and of the returned script has
\* at most totalTurns = 10 turns besides the introduction, 11 in all.
C9_AtMostTotalTurnsPlusIntro ==
    mode = "progressive" =>
        \A s \in HandedOut :
            /\ s.totalTurns = MAX_CONVERSATION_TURNS
            /\ Len(s.conversation) - 1 <= s.totalTurns

C9_Witness ==
    /\ mode = "progressive"
    /\ phase = "returned"
    /\ Len(finalScript.conversation) = MAX_CONVERSATION_TURNS + 1
    /\ Len(snapshots[Len(snapshots)].conversation) = MAX_CONVERSATION_TURNS + 1

\* ---- generatePodcastAudio

\* the states an observer was handed, as they were then and as they read now,
\* and the state the call resolved with
AudioHandedOut ==
    {seen[j] : j \in 1..Len(seen)}
        \cup {View(objs[emitted[j]], segs) : j \in 1..Len(emitted)}
        \cup (IF resolved # 0 THEN {View(objs[resolved], segs)} ELSE {})

HasAudio(seg) == seg.audioUrl # NoUrl
HasError(seg) == seg.error # NoError

\* C4: a failed synthesis leaves its segment with error and no audio, every
\* segment is attempted once, in transcript order, whatever failed before it,
\* a successful synthesis leaves its segment with audio and no error, and the
\* call resolves.
C4_SegmentIsolation ==
    /\ \A k \in 1..Len(synthLog) :
        /\ synthLog[k].segment = k
        /\ synthLog[k].outcome = "ok" => (HasAudio(segs[k]) /\ ~HasError(segs[k]))
        /\ synthLog[k].outcome # "ok" => (HasError(segs[k]) /\ ~HasAudio(segs[k]))
    /\ audioPhase \in {"combine", "resolved"} => Len(synthLog) = Len(turns)
    /\ audioPhase = "resolved" =>
        /\ resolved # 0
        /\ \A k \in 1..Len(turns) :
            LET seg == View(objs[resolved], segs).segments[k] IN
            /\ synthLog[k].outcome = "ok" => (HasAudio(seg) /\ ~HasError(seg))
            /\ synthLog[k].outcome # "ok" => (HasError(seg) /\ ~HasAudio(seg))

C4_Witness ==
    /\ audioPhase = "resolved"
    /\ Len(turns) = 3
    /\ synthLog[1].outcome = "ok"
    /\ synthLog[2].outcome = "429"
    /\ synthLog[3].outcome = "ok"
    /\ HasError(segs[2])
    /\ HasAudio(segs[3])

\* C10: no segment of a state handed to an observer, or of the state the call
\* resolves with, has both error and audio set.
C10_ErrorExcludesAudio ==
    \A st \in AudioHandedOut :
        \A k \in DOMAIN st.segments : ~(HasError(st.segments[k]) /\ HasAudio(st.segments[k]))

C10_Witness ==
    /\ audioPhase = "resolved"
    /\ \E k \in 1..Len(segs) : HasError(segs[k])
    /\ \E k \in 1..Len(segs) : HasAudio(segs[k])

\* C11 as stated: what an observer reads through a PodcastAudio object it was
\* handed stays what it was when the object was handed over (segment fields,
\* fullAudioUrl and isGenerating included).
C11_EmittedNeverChanges ==
    \A j \in 1..Len(emitted) : View(objs[emitted[j]], segs) = seen[j]

\* ---- PodcastService, continued

\* C12: the objects passed to onProgress are pairwise distinct, each has a
\* conversation array of its own that is not the run's array, and what is
\* read through an object handed over earlier (conversation, progress,
\* duration, isGenerating) is what it was then, whatever was pushed since.
C12_SnapshotsAreCopies ==
    /\ \A j \in 1..Len(snapRefs) :
        /\ ReadScript(scripts[snapRefs[j]], arrays) = snapshots[j]
        /\ scripts[snapRefs[j]].conversation # ConversationRef
    /\ \A j, k \in 1..Len(snapRefs) :
        j # k => /\ snapRefs[j] # snapRefs[k]
                 /\ scripts[snapRefs[j]].conversation # scripts[snapRefs[k]].conversation

C12_Witness ==
    /\ Len(snapRefs) >= 3
    /\ Len(arrays[ConversationRef]) = 3
    /\ Len(ReadScript(scripts[snapRefs[1]], arrays).conversation) = 1

\* a step of a run invokes a model after the wait that a limiter owned by
\* that model alone would apply
OwnClockStep ==
    phase \in {"structure", "intro", "turn"} =>
        lastInvoke' - now = WaitTime(now, ownLast[RequestCaller])

\* C13 as stated: the wait applied before an invocation depends only on when
\* the same model (structure, host or expert) was last invoked: it is the
\* wait a limiter owned by that model alone would apply.
C13_OwnClockOnly == [][OwnClockStep]_vars

\* C17: an attempt that fails with a non-throttling error ends its
\* retryWithBackoff call at once, without a backoff wait, and the call throws
\* that error: no further attempt follows it, so an operation whose first
\* attempt fails this way is invoked exactly once.
C17_NoRetryOnOtherErrors ==
    /\ \A k \in 1..Len(retryLog) : retryLog[k].outcome = "throttle"
    /\ \A k \in 1..Len(retryEnd.log) :
        retryEnd.log[k].outcome = "error" =>
            /\ k = Len(retryEnd.log)
            /\ retryEnd.log[k].backoff = 0
            /\ retryEnd.outcome = "error"
            /\ phase \in {"rejected", "returned"}
    /\ (retryEnd.log # <<>> /\ retryEnd.log[1].outcome = "error") => retryEnd.calls = 1

C17_Witness ==
    /\ retryEnd.request = "structure"
    /\ retryEnd.outcome = "error"
    /\ retryEnd.calls = 1
    /\ phase = "rejected"
    /\ now = lastInvoke \/ now = lastInvoke + 3000

\* C18: in a progressive run the observer has been called once for every turn
\* generated so far (the introduction being turn 0) by the time the next
\* turn's generation can begin, the call for turn k carrying exactly turns
\* 0..k of the conversation in their order; the calls are in generation order,
\* one per turn.
C18_SnapshotPerTurn ==
    mode = "progressive" =>
        /\ Len(snapshots) = Len(conversation) + (IF Truncated THEN 1 ELSE 0)
        /\ \A k \in 1..Len(conversation) :
            snapshots[k].conversation = SubSeq(conversation, 1, k)
        /\ phase = "turn" => Len(snapshots) = i + 1

C18_Witness ==
    /\ mode = "progressive"
    /\ phase = "turn"
    /\ i = 3
    /\ Len(snapshots) = 4
    /\ snapshots[3].conversation = SubSeq(conversation, 1, 3)
    /\ Len(conversation) = 4

\* the fraction a is at most the fraction b
FractionLeq(a, b) == a[1] * b[2] <= b[1] * a[2]

\* C14: the progress values generatePodcastWithAudio passes to its observer
\* never decrease; each text-phase value is half of the text progress and lies
\* in 0..50, each audio-phase value is 50 plus half of the audio progress and
\* lies in 50..100; every inner snapshot is forwarded.
C14_BlendedProgress ==
    mode = "withAudio" =>
        /\ Len(forwarded) = Len(snapshots) + Len(seen)
        /\ \A j \in 1..(Len(forwarded) - 1) :
            FractionLeq(forwarded[j].progress, forwarded[j + 1].progress)
        /\ \A j \in 1..Len(snapshots) :
            /\ 2 * forwarded[j].progress[1] = snapshots[j].progress * forwarded[j].progress[2]
            /\ FractionLeq(<<0, 1>>, forwarded[j].progress)
            /\ FractionLeq(forwarded[j].progress, <<50, 1>>)
        /\ \A j \in 1..Len(seen) :
            LET total == forwarded[Len(snapshots) + j].progress
                audio == seen[j].progress
            IN
            /\ 2 * audio[2] * total[1] = (100 * audio[2] + audio[1]) * total[2]
            /\ FractionLeq(<<50, 1>>, total)
            /\ FractionLeq(total, <<100, 1>>)

C14_Witness ==
    /\ mode = "withAudio"
    /\ audioPhase = "resolved"
    /\ Len(snapshots) = 4
    /\ forwarded[3].progress = <<20, 2>>
    /\ forwarded[4].progress = <<100, 2>>
    /\ forwarded[5].progress = <<100, 2>>
    /\ forwarded[Len(forwarded)].progress = <<400, 6>>

\* the combination threw in the call that has resolved
CombineFailed == audioPhase \in {"resolved", "returned"} /\ combineError # NoError

\* the state resolved with, as its receiver reads it
ResolvedState == View(objs[resolved], segs)

\* every segment whose synthesis succeeded still has its own audio, no other has any
SegmentAudioIntact ==
    \A k \in 1..Len(synthLog) :
        ResolvedState.segments[k].audioUrl = (IF synthLog[k].outcome = "ok" THEN k ELSE NoUrl)

WavChannel(wav, c) ==
    [x \in 1..(Len(wav.data) \div wav.numberOfChannels) |->
        wav.data[(x - 1) * wav.numberOfChannels + c]]

RECURSIVE SuccessfulSamples(_, _)
\* the 16-bit samples of channel c of the segments from the k-th on whose
\* synthesis succeeded, in transcript order
SuccessfulSamples(c, k) ==
    IF k > Len(synthLog) THEN <<>>
    ELSE (IF synthLog[k].outcome = "ok"
          THEN [x \in 1..Len(decoded[k][c]) |-> ToPcm16(decoded[k][c][x])]
          ELSE <<>>) \o SuccessfulSamples(c, k + 1)

\* the segments whose synthesis succeeded
Succeeded == {k \in 1..Len(synthLog) : synthLog[k].outcome = "ok"}

RECURSIVE SumOfLengths(_)
SumOfLengths(ks) ==
    IF ks = {} THEN 0
    ELSE LET k == CHOOSE x \in ks : TRUE IN BufferLength(decoded[k]) + SumOfLengths(ks \ {k})

\* C16: a combined track is made of the segments whose synthesis succeeded and
\* of no other: of one such segment it is that segment's audio; of two or more,
\* each channel of the track is the concatenation, in transcript order, of
\* that channel of those segments, as long as all of them together.
C16_InOrderConcatenation ==
    (audioPhase \in {"resolved", "returned"} /\ combineError = NoError) =>
        /\ Succeeded # {}
        /\ Cardinality(Succeeded) = 1 => track.segment \in Succeeded
        /\ Cardinality(Succeeded) > 1 =>
            /\ DOMAIN decoded = Succeeded
            /\ track.numberOfChannels >= 1
            /\ \A c \in 1..track.numberOfChannels :
                /\ WavChannel(track, c) = SuccessfulSamples(c, 1)
                /\ Len(WavChannel(track, c)) = SumOfLengths(Succeeded)

C16_Witness ==
    /\ audioPhase = "resolved"
    /\ combineError = NoError
    /\ Len(segs) = 3
    /\ synthLog[2].outcome # "ok"
    /\ decoded = (1 :> <<<<1, 0>>, <<-2, -3>>>> @@ 3 :> <<<<0>>, <<1>>>>)
    /\ track = [numberOfChannels |-> 2, data |-> <<16383, -32768, 0, -32768, 0, 16383>>]

\* C20 as stated: every synthesis request after the first is made at least
\* SegmentDelay after the previous segment's attempt settled, whether that
\* attempt succeeded or failed.
C20_PauseBetweenSegments ==
    (audioPhase = "synth" /\ si >= 1) => requestStart - attemptEnd >= SegmentDelay

\* C19 as stated: with two runs interleaving on the shared service, the last
\* invocations of the two runs, like any two invocations, start at least
\* REQUEST_DELAY apart.
C19_ConcurrentSpacing ==
    \A p, q \in Runs :
        (p # q /\ runs[p].invoked # Undefined /\ runs[q].invoked # Undefined) =>
            \/ runs[p].invoked - runs[q].invoked >= REQUEST_DELAY
            \/ runs[q].invoked - runs[p].invoked >= REQUEST_DELAY

\* C21: with both API keys configured, the synthesis requests made are one
\* for each segment, in transcript order, none repeated and none left out;
\* the request of a segment is made only once the previous one has settled.
C21_OneRequestPerSegmentInOrder ==
    (hostApiKey /\ expertApiKey /\ audioPhase # "idle") =>
        /\ \A k \in 1..Len(synthLog) :
            /\ synthLog[k].segment = k
            /\ synthLog[k].outcome # "nokey"
        /\ audioPhase \in {"loop", "synth"} => Len(synthLog) = si
        /\ (audioPhase = "synth" /\ si >= 1) => requestStart >= attemptEnd
        /\ audioPhase \in {"combine", "resolved", "returned"} => Len(synthLog) = Len(turns)

C21_Witness ==
    /\ hostApiKey
    /\ expertApiKey
    /\ audioPhase = "resolved"
    /\ Len(turns) = 3
    /\ synthLog[1].outcome = "ok"
    /\ synthLog[2].outcome = "429"
    /\ synthLog[3].outcome = "ok"
    /\ attemptEnd = requestStart + 3000

\* C25: when exactly one segment was synthesized, the call resolves with
\* fullAudioUrl equal to that segment's audioUrl; nothing was decoded or
\* encoded, the URL names the segment's own audio.
C25_SingleSegmentUnchanged ==
    (audioPhase \in {"resolved", "returned"} /\ Cardinality(Succeeded) = 1) =>
        \A k \in Succeeded :
            /\ ResolvedState.fullAudioUrl = ResolvedState.segments[k].audioUrl
            /\ ResolvedState.fullAudioUrl # NoUrl
            /\ track = [segment |-> k]
            /\ decoded = <<>>
            /\ combineError = NoError

C25_Witness ==
    /\ audioPhase = "resolved"
    /\ Len(turns) = 3
    /\ Succeeded = {2}
    /\ objs[resolved].fullAudioUrl = 2
    /\ track = [segment |-> 2]

\* the segments of a state that have audio
WithAudioIn(state) == {k \in 1..Len(state.segments) : HasAudio(state.segments[k])}

\* C28 as stated: each state handed to the observer, as it was then, and the
\* state resolved with say completedSegments = the number of their segments
\* that have audio, and progress = completedSegments / totalSegments x 100.
C28_CompletedCountsAudio ==
    /\ \A j \in 1..Len(seen) :
        /\ seen[j].completedSegments = Cardinality(WithAudioIn(seen[j]))
        /\ seen[j].progress[1] * seen[j].totalSegments
               = seen[j].completedSegments * 100 * seen[j].progress[2]
    /\ resolved # 0 =>
        /\ ResolvedState.completedSegments = Cardinality(WithAudioIn(ResolvedState))
        /\ ResolvedState.progress[1] * ResolvedState.totalSegments
               = ResolvedState.completedSegments * 100 * ResolvedState.progress[2]

\* the segments of a state that are marked as generating
GeneratingIn(state) == {k \in 1..Len(state.segments) : state.segments[k].isGenerating}

\* C29: the state the call resolves with is the last one handed to the
\* observer; it and all its segments have isGenerating false and each segment
\* has either audio or an error, never both or neither; every state handed
\* out before had at most one segment marked as generating.
C29_SettledWhenResolved ==
    /\ \A j \in 1..Len(seen) : Cardinality(GeneratingIn(seen[j])) <= 1
    /\ resolved # 0 =>
        /\ emitted[Len(emitted)] = resolved
        /\ seen[Len(seen)] = ResolvedState
        /\ ResolvedState.isGenerating = FALSE
        /\ GeneratingIn(ResolvedState) = {}
        /\ Len(ResolvedState.segments) = Len(turns)
        /\ \A k \in 1..Len(ResolvedState.segments) :
            HasAudio(ResolvedState.segments[k]) # HasError(ResolvedState.segments[k])

C29_Witness ==
    /\ audioPhase = "resolved"
    /\ Len(turns) = 3
    /\ HasError(ResolvedState.segments[1])
    /\ HasAudio(ResolvedState.segments[2])
    /\ HasError(ResolvedState.segments[3])
    /\ Cardinality(GeneratingIn(seen[2])) = 1
    /\ ResolvedState.isGenerating = FALSE

\* C22 as stated: every snapshot emitted after a successful turn, the
\* introduction included, has progress = turns in its conversation /
\* totalTurns x 100.
C22_ProgressCountsConversation ==
    mode = "progressive" =>
        \A j \in 1..Len(conversation) :
            snapshots[j].progress * snapshots[j].totalTurns
                = Len(snapshots[j].conversation) * 100

\* C22 amended: every snapshot emitted after a successful turn has progress =
\* (turns in its conversation - 1) / totalTurns x 100: the introduction is not
\* counted, its snapshot says 0 and the snapshot of the tenth turn says 100.
C22_ProgressCountsLoopTurns ==
    mode = "progressive" =>
        \A j \in 1..Len(conversation) :
            snapshots[j].progress * snapshots[j].totalTurns
                = (Len(snapshots[j].conversation) - 1) * 100

C22_Witness ==
    /\ mode = "progressive"
    /\ Len(conversation) = 4
    /\ snapshots[1].progress = 0
    /\ snapshots[4].progress = 30
    /\ Len(snapshots[4].conversation) = 4
    /\ snapshots[4].totalTurns = 10

\* C23 as stated: every snapshot of a progressive run and the script it
\* returns have duration = ceil(W / 125) minutes, W the word count of their
\* own conversation.
C23_DurationOfOwnConversation ==
    mode = "progressive" =>
        \A script \in HandedOut : script.duration = DurationMinutes(script.conversation)

\* the backoff waits of the last finished retryWithBackoff call, in order
BackoffWaits == [k \in 1..Len(retryEnd.log) |-> retryEnd.log[k].backoff]

\* every attempt of the last finished retryWithBackoff call was throttled
AlwaysThrottled ==
    /\ Len(retryEnd.log) = MaxRetries
    /\ \A k \in 1..Len(retryEnd.log) : retryEnd.log[k].outcome = "throttle"

\* C24 as stated: a retryWithBackoff call whose attempts are all throttled
\* waits 1 s, 2 s and 4 s after them.
C24_WaitsOneTwoFour ==
    AlwaysThrottled => BackoffWaits = <<1000, 2000, 4000>>

\* C24 amended: a retryWithBackoff call whose attempts are all throttled waits
\* baseDelay x 2^attempt after the attempts it retries, 1 s and 2 s; the third
\* throttled attempt is followed by no wait, and an unfinished call has waited
\* the same way.
C24_WaitsOneTwo ==
    /\ AlwaysThrottled => BackoffWaits = <<BaseDelay, 2 * BaseDelay, 0>>
    /\ \A k \in 1..Len(retryLog) : retryLog[k].backoff = BaseDelay * (2 ^ (k - 1))

C24_Witness ==
    /\ AlwaysThrottled
    /\ retryEnd.request = "intro"
    /\ retryEnd.calls = 3
    /\ phase = "rejected"

\* C30 as stated: a script of a progressive run, snapshot or returned, that
\* says progress 100 holds the introduction and all MAX_CONVERSATION_TURNS turns.
C30_HundredOnlyWhenComplete ==
    mode = "progressive" =>
        \A script \in HandedOut :
            script.progress = 100 => Len(script.conversation) = MAX_CONVERSATION_TURNS + 1

\* the run has made no more than 12 requests and 36 invocations
WithinCallBounds ==
    /\ stats.requests <= MAX_CONVERSATION_TURNS + 2
    /\ stats.invocations <= MaxRetries * (MAX_CONVERSATION_TURNS + 2)

\* C27: when every capability call settles, a generatePodcastProgressive call
\* returns or rejects, having made at most 12 retryWithBackoff requests and at
\* most 36 capability invocations.
C27_TerminatesWithinBounds ==
    /\ []WithinCallBounds
    /\ <>(phase \in {"returned", "rejected"})

C27_Witness ==
    /\ phase = "returned"
    /\ stats.requests = 12
    /\ stats.invocations = 36
    /\ Len(conversation) = MAX_CONVERSATION_TURNS + 1

\* the capability call the generatePodcastProgressive run awaits
ProgressiveCall == [caller |-> RequestCaller, history |-> conversation, attempt |-> attempt]

\* C26: given the same capability outcomes, generatePodcast and
\* generatePodcastProgressive await the same capability call at every step
\* and settle alike: both reject, or both return scripts with the same
\* conversation and duration and isGenerating = false.
C26_SameCallsSameScript ==
    twin.phase # "none" =>
        /\ twin.phase = phase
        /\ phase \in {"structure", "intro", "turn"} => PlainCall(twin) = ProgressiveCall
        /\ phase = "returned" =>
            /\ twin.result.conversation = finalScript.conversation
            /\ twin.result.duration = finalScript.duration
            /\ ~twin.result.isGenerating
            /\ ~finalScript.isGenerating

C26_Witness ==
    /\ twin.phase = "returned"
    /\ phase = "returned"
    /\ failedTurn = 4
    /\ Len(twin.result.conversation) = 4
    /\ twin.result.duration >= 2
    /\ stats.invocations > stats.requests

====
